---- MODULE Spec2Model ----
(***************************************************************************)
(* A model of src/main.py: the story-point extrapolator, the trial engine  *)
(* and its Monte Carlo driver, the business-day converter and the release  *)
(* chain of main().                                                        *)
(*                                                                         *)
(* Numbers.  Python floats are modelled as exact rationals <<n, d>> in     *)
(* lowest terms with d > 0; IEEE rounding is not modelled.  None is the    *)
(* pair <<0, 0>>.  Counts (numbers of stories, of trials) are integers.    *)
(*                                                                         *)
(* Dates.  A date object is its proleptic Gregorian ordinal (Python's      *)
(* date.toordinal()); the text 'YYYY-MM-DD' of a date is the triple        *)
(* <<year, month, day>>, and no text (None) is <<0, 0, 0>>.                *)
(***************************************************************************)
EXTENDS Integers, Sequences, FiniteSets, TLC

(***************************************************************************)
(* Bounds of the model.                                                    *)
(***************************************************************************)
MaxStories == 4          \* stories of a workload handed to the extrapolator
MaxPoints == 3           \* its point total, in half points up to this
MaxTrialStories == 2     \* stories of a directly called simulation
MaxTrials == 2           \* num_simulations of a directly called simulation
MaxFactors == 2          \* risk factors of its registry
MaxReleases == 2         \* versions the tracker holds
MaxIssues == 2           \* issues the tracker returns for one version
SimulationCount == 2     \* trials per release in main() (10000 at line 286)
BurnRate == 320          \* line 285
MaxWeeks == 2            \* delivery_weeks of a directly called get_delivery_date
MaxDateCalls == 2        \* direct calls of get_delivery_date on one start date
MaxStartShift == 9       \* start dates: this many days after the first
MinTenths == 3           \* tenths of a week below zero among the horizons

(***************************************************************************)
(* Exact rational arithmetic.                                              *)
(***************************************************************************)
Abs(x) == IF x < 0 THEN -x ELSE x

\* The arithmetic is defined on values (functions of their arguments), so that
\* an operand is evaluated once however often its operator reads it.
GCD[a \in Nat, b \in Nat] == IF b = 0 THEN a ELSE GCD[b, a % b]

NormPair[p \in Int \X Int] ==
    LET s == IF p[2] < 0 THEN -1 ELSE 1
        g == GCD[Abs(p[1]), Abs(p[2])]
    IN  <<(s * p[1]) \div g, (s * p[2]) \div g>>

Norm(n, d) == NormPair[<<n, d>>]

R(i) == <<i, 1>>
Frac(n, d) == Norm(n, d)
NoneNum == <<0, 0>>
IsNum(a) == a[2] > 0
Zero == R(0)

Rat == Int \X Int

AddPair[p \in Rat \X Rat] ==
    Norm(p[1][1] * p[2][2] + p[2][1] * p[1][2], p[1][2] * p[2][2])
MulPair[p \in Rat \X Rat] == Norm(p[1][1] * p[2][1], p[1][2] * p[2][2])
DivPair[p \in Rat \X Rat] == Norm(p[1][1] * p[2][2], p[1][2] * p[2][1])
LePair[p \in Rat \X Rat] == p[1][1] * p[2][2] <= p[2][1] * p[1][2]

RNeg(a) == <<-a[1], a[2]>>
RAdd(a, b) == AddPair[<<a, b>>]
RSub(a, b) == AddPair[<<a, RNeg(b)>>]
RMul(a, b) == MulPair[<<a, b>>]
RDiv(a, b) == DivPair[<<a, b>>]
RLe(a, b) == LePair[<<a, b>>]
RLt(a, b) == ~LePair[<<b, a>>]
\* truncation toward zero
RTruncOf[a \in Rat] ==
    IF a[1] >= 0 THEN a[1] \div a[2] ELSE -((-a[1]) \div a[2])
RTrunc(a) == RTruncOf[a]
RFloor(a) == IF a[1] >= 0 THEN a[1] \div a[2] ELSE -((-a[1] + a[2] - 1) \div a[2])

(***************************************************************************)
(* The outcome of a call: a returned value or a raised exception.          *)
(***************************************************************************)
Return(v) == [ok |-> TRUE, val |-> v, err |-> "none"]
Raise(e) == [ok |-> FALSE, val |-> NoneNum, err |-> e]

(***************************************************************************)
(* calculate_initial_story_points: the average is taken over total_stories *)
(* (line 34), a Python true division that raises on a zero divisor.        *)
(***************************************************************************)
calculate_initial_story_points_extrapolated_only(total, without, points) ==
    IF total = 0
    THEN Raise("ZeroDivisionError")
    ELSE Return(RMul(RDiv(points, R(total)), R(without)))

calculate_initial_story_points(total, without, points) ==
    IF total = 0
    THEN Raise("ZeroDivisionError")
    ELSE LET avg_story_points == RDiv(points, R(total))
             extrapolated_points == RMul(avg_story_points, R(without))
         IN  Return(RAdd(points, extrapolated_points))


(***************************************************************************)
(* Dictionaries (insertion-ordered): sequences of <<key, value>> pairs.    *)
(***************************************************************************)
DictKeys(dct) == {dct[i][1] : i \in 1..Len(dct)}
DictGet(dct, k) == dct[CHOOSE i \in 1..Len(dct) : dct[i][1] = k][2]
DictPut(dct, k, v) ==
    IF k \in DictKeys(dct)
    THEN [i \in 1..Len(dct) |-> IF dct[i][1] = k THEN <<k, v>> ELSE dct[i]]
    ELSE Append(dct, <<k, v>>)

(***************************************************************************)
(* np.random.binomial(1, p): the values one Bernoulli draw can take.  A    *)
(* probability outside [0, 1] is refused (ValueError): the empty set.      *)
(***************************************************************************)
binomial(p) ==
    IF RLt(p, Zero) \/ RLt(R(1), p) THEN {}
    ELSE IF p = Zero THEN {0}
    ELSE IF p = R(1) THEN {1}
    ELSE {0, 1}

RECURSIVE SumSeq(_)
SumSeq(s) == IF s = <<>> THEN Zero ELSE RAdd(s[1], SumSeq(Tail(s)))

\* np.mean of a non-empty list
mean(s) == RDiv(SumSeq(s), R(Len(s)))

VARIABLES
    pc,                 \* the control point of the running call
    error,              \* the exception that ended the run, or "none"
    caller,             \* who called monte_carlo_simulation: "main" or "direct"
    \* the parameters of monte_carlo_simulation
    burn_rate, total_stories, stories_without_estimates,
    story_points_for_estimated_stories, num_simulations, simulations,
    \* its locals
    total_initial_points, all_sim_results, agg_data,
    \* the locals of the running run_simulation
    avg_story_size, adjusted_points, factor, story, total_impact_points,
    simulation_results,
    draws,              \* how many Bernoulli draws the random stream has served
    \* the environment of main(): the day of the run, the credentials in the
    \* environment variables
    today, credentials,
    \* the locals of main()
    unreleased, rel, start_date, current, jira_data, forecasted_end_date,
    printed,            \* the reports print_results has written, in order
    \* the parameters of the latest get_delivery_date call
    gdd_start, gdd_weeks,
    date_calls          \* the direct calls of get_delivery_date and their outcomes

paramVars == <<burn_rate, total_stories, stories_without_estimates,
               story_points_for_estimated_stories, num_simulations, simulations>>
mcVars == <<total_initial_points, all_sim_results, agg_data>>
trialVars == <<avg_story_size, adjusted_points, factor, story,
               total_impact_points, simulation_results>>

NoAgg == [delivery_weeks |-> NoneNum, total_stories |-> 0,
          total_initial_points |-> NoneNum,
          extrapolated_points |-> NoneNum, final_points |-> NoneNum]

McIdle ==
    /\ total_initial_points = NoneNum
    /\ all_sim_results = <<>>
    /\ agg_data = NoAgg

TrialIdle ==
    /\ avg_story_size = NoneNum
    /\ adjusted_points = NoneNum
    /\ factor = 0
    /\ story = 0
    /\ total_impact_points = NoneNum
    /\ simulation_results = <<>>


envVars == <<today, credentials>>
mainVars == <<unreleased, rel, start_date, current, jira_data,
              forecasted_end_date, printed>>
gddVars == <<gdd_start, gdd_weeks>>

vars == <<pc, error, caller, paramVars, mcVars, trialVars, draws, envVars,
          mainVars, gddVars, date_calls>>

(***************************************************************************)
(* Calendar: proleptic Gregorian ordinals and 'YYYY-MM-DD' texts.          *)
(***************************************************************************)
NoText == <<0, 0, 0>>

IsLeap(y) == y % 4 = 0 /\ (y % 100 # 0 \/ y % 400 = 0)

DaysInMonth(y, m) ==
    IF m = 2 THEN (IF IsLeap(y) THEN 29 ELSE 28)
    ELSE IF m \in {4, 6, 9, 11} THEN 30 ELSE 31

DaysBeforeYear(y) ==
    LET p == y - 1 IN p * 365 + p \div 4 - p \div 100 + p \div 400

RECURSIVE DaysBeforeMonth(_, _)
DaysBeforeMonth(y, m) ==
    IF m <= 1 THEN 0 ELSE DaysBeforeMonth(y, m - 1) + DaysInMonth(y, m - 1)

\* datetime.strptime(text, "%Y-%m-%d").date(), as an ordinal
ParseDate(t) == DaysBeforeYear(t[1]) + DaysBeforeMonth(t[1], t[2]) + t[3]

\* str() of a date: the year, month and day of an ordinal
DateStr(n) ==
    LET y0 == ((n - 1) * 400) \div 146097 + 1
        y == IF n > DaysBeforeYear(y0 + 1) THEN y0 + 1
             ELSE IF n <= DaysBeforeYear(y0) THEN y0 - 1 ELSE y0
        r == n - DaysBeforeYear(y)
        m == CHOOSE k \in 1..12 :
                 DaysBeforeMonth(y, k) < r /\ r <= DaysBeforeMonth(y, k) + DaysInMonth(y, k)
    IN  <<y, m, r - DaysBeforeMonth(y, m)>>

\* 0 = Monday ... 6 = Sunday
weekday(n) == (n - 1) % 7
is_busday(n) == weekday(n) < 5

(***************************************************************************)
(* np.busday_offset(date, offset, roll='forward') for an integer offset    *)
(* and the default Monday-Friday week mask: the date is first rolled       *)
(* forward to a business day, then moved offset business days.             *)
(***************************************************************************)
roll_forward(n) == IF weekday(n) = 5 THEN n + 2 ELSE IF weekday(n) = 6 THEN n + 1 ELSE n

\* A business day moved k business days: whole weeks first, then day by day
\* over the rest, as numpy's apply_business_day_offset does.
RECURSIVE step_busdays(_, _)
step_busdays(n, k) ==
    IF k = 0 THEN n
    ELSE IF k > 0
    THEN step_busdays(IF weekday(n) = 4 THEN n + 3 ELSE n + 1, k - 1)
    ELSE step_busdays(IF weekday(n) = 0 THEN n - 3 ELSE n - 1, k + 1)

OffsetFrom[p \in Int \X Int] ==
    IF p[2] >= 0
    THEN step_busdays(p[1] + 7 * (p[2] \div 5), p[2] % 5)
    ELSE step_busdays(p[1] - 7 * ((-p[2]) \div 5), -((-p[2]) % 5))

busday_offset_backwards(date, offset) ==
    OffsetFrom[<<roll_forward(date), -offset>>]

busday_offset(date, offset) == OffsetFrom[<<roll_forward(date), offset>>]

(***************************************************************************)
(* get_delivery_date(start_date, delivery_weeks), lines 152-155.           *)
(* business_days = delivery_weeks * 5 is handed to np.busday_offset as it  *)
(* is, a float; the source applies no floor of its own.  np.busday_offset  *)
(* coerces a scalar offset to int64, which drops the fraction (toward      *)
(* zero), rolls a non-business start forward and steps the offset.  The    *)
(* value is the date as str() prints it, the form lines 506 and 507 use.   *)
(***************************************************************************)
get_delivery_date_rounded_up(start, delivery_weeks) ==
    LET business_days == RMul(delivery_weeks, R(5))
    IN  DateStr(busday_offset(start, -RFloor(RNeg(business_days))))

get_delivery_date(start, delivery_weeks) ==
    LET business_days == RMul(delivery_weeks, R(5))
    IN  DateStr(busday_offset(start, RTrunc(business_days)))

\* a loop that swallows the exception and goes on to the next version
PropagateSkipped(e) ==
    /\ pc' = IF caller = "main" /\ rel > 0 THEN "main_loop" ELSE "raised"
    /\ rel' = IF caller = "main" /\ rel > 0 THEN rel + 1 ELSE rel
    /\ error' = e
    /\ UNCHANGED <<caller, paramVars, mcVars, trialVars, draws, envVars,
                   unreleased, start_date, current, jira_data,
                   forecasted_end_date, printed, gddVars, date_calls>>

(***************************************************************************)
(* An exception nobody catches: main() and the functions it calls hold no  *)
(* handler (format_date's aside), so a raise ends the run where it stands. *)
(***************************************************************************)
Propagate(e) ==
    /\ pc' = "raised"
    /\ error' = e
    /\ UNCHANGED <<caller, paramVars, mcVars, trialVars, draws, envVars,
                   mainVars, gddVars, date_calls>>

(***************************************************************************)
(* monte_carlo_simulation, lines 129-130: the extrapolation.               *)
(***************************************************************************)
MCExtrapolate ==
    /\ pc = "mc_call"
    /\ LET r == calculate_initial_story_points(
                    total_stories, stories_without_estimates,
                    story_points_for_estimated_stories)
       IN  IF r.ok
           THEN /\ total_initial_points' = r.val
                /\ all_sim_results' = <<>>
                /\ pc' = "mc_trials"
                /\ UNCHANGED <<error, caller, paramVars, agg_data, trialVars,
                               draws, envVars, mainVars, gddVars, date_calls>>
           ELSE Propagate(r.err)

(***************************************************************************)
(* run_simulation, lines 69-72: a trial begins.                            *)
(***************************************************************************)
RunSimulationBegin ==
    /\ pc = "mc_trials"
    /\ Len(all_sim_results) < num_simulations
    /\ IF total_stories = 0
       THEN Propagate("ZeroDivisionError")
       ELSE /\ avg_story_size' = RDiv(total_initial_points, R(total_stories))
            /\ simulation_results' = <<>>
            /\ adjusted_points' = total_initial_points
            /\ factor' = 1
            /\ pc' = "rs_factor"
            /\ UNCHANGED <<error, caller, paramVars, mcVars, story,
                           total_impact_points, draws, envVars, mainVars,
                           gddVars, date_calls>>

\* line 74-75: the next factor of the registry
FactorBegin ==
    /\ pc = "rs_factor"
    /\ factor <= Len(simulations)
    /\ total_impact_points' = Zero
    /\ story' = 0
    /\ pc' = "rs_story"
    /\ UNCHANGED <<error, caller, paramVars, mcVars, avg_story_size,
                   adjusted_points, factor, simulation_results, draws, envVars,
                   mainVars, gddVars, date_calls>>

impact_points_unscaled(event, simulation_data, avg) ==
    RMul(R(event), simulation_data.impact)

\* what one draw adds to the factor's accumulator (line 80)
impact_points(event, simulation_data, avg) ==
    RMul(RMul(R(event), simulation_data.impact), avg)

\* lines 78-81: one story's Bernoulli draw
Draw ==
    /\ pc = "rs_story"
    /\ story < total_stories
    /\ LET simulation_data == simulations[factor]
       IN  IF binomial(simulation_data.probability) = {}
           THEN Propagate("ValueError")
           ELSE \E event \in binomial(simulation_data.probability) :
                    /\ total_impact_points' =
                           RAdd(total_impact_points,
                                impact_points(event, simulation_data, avg_story_size))
                    /\ story' = story + 1
                    /\ draws' = draws + 1
                    /\ UNCHANGED <<pc, error, caller, paramVars, mcVars,
                                   avg_story_size, adjusted_points, factor,
                                   simulation_results, envVars, mainVars,
                                   gddVars, date_calls>>

\* lines 83-84: the factor's stories are done
FactorEnd ==
    /\ pc = "rs_story"
    /\ story >= total_stories
    /\ adjusted_points' = RAdd(adjusted_points, total_impact_points)
    /\ simulation_results' =
           DictPut(simulation_results, simulations[factor].name, total_impact_points)
    /\ factor' = factor + 1
    /\ pc' = "rs_factor"
    /\ UNCHANGED <<error, caller, paramVars, mcVars, avg_story_size, story,
                   total_impact_points, draws, envVars, mainVars, gddVars,
                   date_calls>>

\* a trial that reports the points it started from as its final points
RunSimulationEnd_initial_points ==
    /\ pc = "rs_factor"
    /\ factor > Len(simulations)
    /\ IF burn_rate = Zero
       THEN Propagate("ZeroDivisionError")
       ELSE /\ all_sim_results' =
                   Append(all_sim_results,
                          DictPut(DictPut(simulation_results, "delivery_weeks",
                                          RDiv(adjusted_points, burn_rate)),
                                  "final_points", total_initial_points))
            /\ pc' = "mc_trials"
            /\ UNCHANGED <<error, caller, paramVars, total_initial_points,
                           agg_data, trialVars, draws, envVars, mainVars,
                           gddVars, date_calls>>

\* lines 86-88: the trial's result, appended by the comprehension of line 132
RunSimulationEnd ==
    /\ pc = "rs_factor"
    /\ factor > Len(simulations)
    /\ IF burn_rate = Zero
       THEN Propagate("ZeroDivisionError")
       ELSE /\ all_sim_results' =
                   Append(all_sim_results,
                          DictPut(DictPut(simulation_results, "delivery_weeks",
                                          RDiv(adjusted_points, burn_rate)),
                                  "final_points", adjusted_points))
            /\ pc' = "mc_trials"
            /\ UNCHANGED <<error, caller, paramVars, total_initial_points,
                           agg_data, trialVars, draws, envVars, mainVars,
                           gddVars, date_calls>>

\* lines 141-149: the aggregate, and the return to the caller
MCAggregate ==
    /\ pc = "mc_trials"
    /\ Len(all_sim_results) >= num_simulations
    /\ agg_data' =
           [delivery_weeks |->
                mean([i \in 1..Len(all_sim_results) |->
                          DictGet(all_sim_results[i], "delivery_weeks")]),
            total_stories |-> total_stories,
            total_initial_points |-> total_initial_points,
            extrapolated_points |->
                RSub(total_initial_points, story_points_for_estimated_stories),
            final_points |->
                mean([i \in 1..Len(all_sim_results) |->
                          DictGet(all_sim_results[i], "final_points")])]
    /\ pc' = IF caller = "main" THEN "main_date" ELSE "mc_returned"
    /\ UNCHANGED <<error, caller, paramVars, total_initial_points,
                   all_sim_results, trialVars, draws, envVars, mainVars,
                   gddVars, date_calls>>

MCNext ==
    \/ MCExtrapolate
    \/ RunSimulationBegin
    \/ FactorBegin
    \/ Draw
    \/ FactorEnd
    \/ RunSimulationEnd
    \/ MCAggregate


(***************************************************************************)
(* The values a variable holds before the code that sets it has run.       *)
(***************************************************************************)
TextStart(t) == [kind |-> "text", text |-> t, ord |-> 0]
DateStart(n) == [kind |-> "date", text |-> NoText, ord |-> n]

NoJira == [story_total |-> 0, story_points_estimated_total |-> Zero,
           stories_without_estimates |-> 0,
           bottleneck_probability |-> <<NoneNum, NoneNum>>]

EnvIdle ==
    /\ today = 1
    /\ credentials = TRUE

MainIdle ==
    /\ unreleased = <<>>
    /\ rel = 0
    /\ start_date = TextStart(NoText)
    /\ current = FALSE
    /\ jira_data = NoJira
    /\ forecasted_end_date = NoText
    /\ printed = <<>>

GddIdle ==
    /\ gdd_start = 0
    /\ gdd_weeks = NoneNum
    /\ date_calls = <<>>

ParamsIdle ==
    /\ burn_rate = NoneNum
    /\ num_simulations = 0
    /\ simulations = <<>>

(***************************************************************************)
(* The extrapolator called on its own: every workload of the bounds, and   *)
(* the docstring's example.                                                *)
(***************************************************************************)
PointTotals == {Frac(p, 2) : p \in 0..(2 * MaxPoints)}

\* <<total_stories, stories_without_estimates, story points of the estimated>>:
\* no estimated story carries no points
Workloads ==
    {<<t, u, p>> \in (0..MaxStories) \X (0..MaxStories) \X PointTotals :
        u <= t /\ (u = t => p = Zero)}
    \cup {<<100, 50, R(250)>>}

InitExtrapolate ==
    /\ pc = "ex_call"
    /\ error = "none"
    /\ caller = "direct"
    /\ \E w \in Workloads :
           /\ total_stories = w[1]
           /\ stories_without_estimates = w[2]
           /\ story_points_for_estimated_stories = w[3]
    /\ ParamsIdle /\ McIdle /\ TrialIdle /\ draws = 0
    /\ EnvIdle /\ MainIdle /\ GddIdle

ExtrapolateCall ==
    /\ pc = "ex_call"
    /\ LET r == calculate_initial_story_points(
                    total_stories, stories_without_estimates,
                    story_points_for_estimated_stories)
       IN  IF r.ok
           THEN /\ total_initial_points' = r.val
                /\ pc' = "ex_returned"
                /\ UNCHANGED <<error, caller, paramVars, all_sim_results,
                               agg_data, trialVars, draws, envVars, mainVars,
                               gddVars, date_calls>>
           ELSE Propagate(r.err)

NextExtrapolate == ExtrapolateCall

SpecExtrapolate == InitExtrapolate /\ [][NextExtrapolate]_vars

(***************************************************************************)
(* monte_carlo_simulation called on its own, with parameters of any sign.  *)
(***************************************************************************)
BurnRates == {R(-1), Zero, R(2)}
Probabilities == {Zero, Frac(1, 2), R(1)}
Impacts == {Zero, Frac(1, 2), R(2)}
FactorNames == <<"estimation_errors", "scope_creep", "rework", "refactor">>

Registries ==
    UNION {
        {[i \in 1..n |-> [name |-> FactorNames[i], probability |-> f[i][1],
                          impact |-> f[i][2]]] :
            f \in [1..n -> Probabilities \X Impacts]} : n \in 1..MaxFactors}

InitTrial ==
    /\ pc = "mc_call"
    /\ error = "none"
    /\ caller = "direct"
    /\ burn_rate \in BurnRates
    /\ total_stories \in (-1)..MaxTrialStories
    /\ stories_without_estimates \in 0..1
    /\ story_points_for_estimated_stories \in {Zero, R(3)}
    /\ num_simulations \in 1..MaxTrials
    /\ simulations \in Registries
    /\ McIdle /\ TrialIdle /\ draws = 0
    /\ EnvIdle /\ MainIdle /\ GddIdle

NextTrial == MCNext

SpecTrial == InitTrial /\ [][NextTrial]_vars


(***************************************************************************)
(* calculate_bottleneck_probability.  An issue is its story points         *)
(* (customfield_10026, None when unset) and its assignee's e-mail address  *)
(* ("None" when there is none).                                            *)
(***************************************************************************)
RECURSIVE SumSet(_, _)
SumSet(S, F) ==
    IF S = {} THEN Zero
    ELSE LET x == CHOOSE y \in S : TRUE IN RAdd(F[x], SumSet(S \ {x}, F))

RAbs(a) == <<Abs(a[1]), a[2]>>
RMin(a, b) == IF RLe(a, b) THEN a ELSE b

ReturnPair(v) == [ok |-> TRUE, val |-> v, err |-> "none"]
RaisePair(e) == [ok |-> FALSE, val |-> <<NoneNum, NoneNum>>, err |-> e]

calculate_bottleneck_probability(issues_list) ==
    LET idx == 1..Len(issues_list)
        assigned == {i \in idx : issues_list[i].assignee # "None"}
        engineers == {issues_list[i].assignee : i \in assigned}
        of(e) == {i \in assigned : issues_list[i].assignee = e}
        assignee_distribution == [e \in engineers |-> R(Cardinality(of(e)))]
        assignee_story_points ==
            [e \in engineers |->
                SumSet(of(e), [i \in of(e) |-> issues_list[i].points])]
        n == R(Cardinality(engineers))
        \* np.var: the population variance of the task counts
        mean_count == RDiv(SumSet(engineers, assignee_distribution), n)
        variance ==
            RDiv(SumSet(engineers,
                        [e \in engineers |->
                            RMul(RSub(assignee_distribution[e], mean_count),
                                 RSub(assignee_distribution[e], mean_count))]),
                 n)
        probability == RMin(R(1), RDiv(variance, R(500)))
        effective_story_points ==
            [e \in engineers |->
                RMul(assignee_distribution[e], assignee_story_points[e])]
        average_effective_story_points ==
            RDiv(SumSet(engineers, effective_story_points), n)
        relative_impacts ==
            [e \in engineers |->
                RAbs(RSub(effective_story_points[e], average_effective_story_points))]
        average_impact == RDiv(SumSet(engineers, relative_impacts), n)
        average_issue_size ==
            RDiv(SumSet(idx, [i \in idx |-> issues_list[i].points]),
                 R(Len(issues_list)))
    IN  IF \E i \in assigned : ~IsNum(issues_list[i].points)
        THEN RaisePair("TypeError")              \* line 184: number += None
        ELSE IF engineers = {}
        THEN RaisePair("ZeroDivisionError")      \* line 195
        ELSE IF \E i \in idx : ~IsNum(issues_list[i].points)
        THEN RaisePair("TypeError")              \* line 200: sum over a None
        ELSE IF average_issue_size = Zero
        THEN RaisePair("ZeroDivisionError")      \* line 201
        ELSE ReturnPair(<<probability, RDiv(average_impact, average_issue_size)>>)

(***************************************************************************)
(* fetch_and_analyze_stories: the snapshot of one version's issues.        *)
(* jira_ok says whether the tracker answered the query.                    *)
(***************************************************************************)
ReturnData(v) == [ok |-> TRUE, val |-> v, err |-> "none"]
RaiseData(e) == [ok |-> FALSE, val |-> NoJira, err |-> e]

\* a value that counts as an estimate: neither None nor zero
Truthy(points) == IsNum(points) /\ points # Zero

fetch_and_analyze_stories(creds, jira_ok, issues) ==
    LET idx == 1..Len(issues)
        estimated == {i \in idx : Truthy(issues[i].points)}
        bottleneck_probability == calculate_bottleneck_probability(issues)
    IN  IF ~creds THEN RaiseData("ValueError")
        ELSE IF ~jira_ok THEN RaiseData("JIRAError")
        ELSE IF ~bottleneck_probability.ok
        THEN RaiseData(bottleneck_probability.err)
        ELSE ReturnData(
                 [story_total |-> Len(issues),
                  story_points_estimated_total |->
                      SumSet(estimated, [i \in estimated |-> issues[i].points]),
                  stories_without_estimates |-> Cardinality(idx \ estimated),
                  bottleneck_probability |-> bottleneck_probability.val])


(***************************************************************************)
(* main().  A version of the tracker is its Name (a number standing for    *)
(* the name's place in the order of names), its Status (released or not)   *)
(* and its Start Date as format_date leaves it: a text, or None.           *)
(***************************************************************************)
StartTexts == {NoText, <<2024, 2, 26>>}

ReleaseLists ==
    UNION {
        {r \in [1..n -> [Name : 1..MaxReleases, Status : BOOLEAN,
                         StartDate : StartTexts]] :
            \A i, j \in 1..n : i # j => r[i].Name # r[j].Name} :
        n \in 0..MaxReleases}

\* sorted(releases, key=Name), then the filter on Status (line 474)
sorted_by_name(rs) ==
    [i \in 1..Len(rs) |->
        rs[CHOOSE k \in 1..Len(rs) :
               Cardinality({j \in 1..Len(rs) : rs[j].Name < rs[k].Name}) = i - 1]]

not_released(r) == ~r.Status

IssuePoints == {NoneNum, Zero, R(8), R(400)}
Assignees == {"None", "a", "b"}

IssueLists ==
    UNION {[1..n -> [points : IssuePoints, assignee : Assignees]] :
           n \in 0..MaxIssues}

\* the registry of main(), cut to two of its factors (lines 302-304, 380-382)
MainRegistry ==
    <<[name |-> "scope_creep", probability |-> Frac(13, 20), impact |-> R(1)],
      [name |-> "bottlenecks", probability |-> Zero, impact |-> Zero]>>

\* an update that writes the values into every factor of the registry
with_bottleneck_every_factor(sims, probability, impact) ==
    [i \in 1..Len(sims) |->
        [sims[i] EXCEPT !.probability = probability, !.impact = impact]]

\* lines 494-495: the registry with the bottleneck factor's values replaced
with_bottleneck(sims, probability, impact) ==
    [i \in 1..Len(sims) |->
        IF sims[i].name = "bottlenecks"
        THEN [sims[i] EXCEPT !.probability = probability, !.impact = impact]
        ELSE sims[i]]

\* what the tracker's answer can make of one fetch_and_analyze_stories call
Snapshots ==
    [creds \in BOOLEAN, jira_ok \in BOOLEAN |->
        {fetch_and_analyze_stories(creds, jira_ok, issues) : issues \in IssueLists}]

\* lines 472-476
MainStart ==
    /\ pc = "main_start"
    /\ \E jira_ok \in BOOLEAN, rs \in ReleaseLists :
           LET found == SelectSeq(sorted_by_name(rs), not_released)
           IN  IF ~credentials THEN Propagate("ValueError")
               ELSE IF ~jira_ok THEN Propagate("JIRAError")
               ELSE IF found = <<>> THEN Propagate("IndexError")
               ELSE /\ unreleased' = found
                    /\ start_date' = TextStart(found[1].StartDate)
                    /\ current' = TRUE
                    /\ rel' = 1
                    /\ pc' = "main_loop"
                    /\ UNCHANGED <<error, caller, paramVars, mcVars, trialVars,
                                   draws, envVars, jira_data,
                                   forecasted_end_date, printed, gddVars,
                                   date_calls>>

\* lines 477-499: the snapshot of the next version, the bottleneck factor
\* written into the registry, and the call of monte_carlo_simulation
MainFetch ==
    /\ pc = "main_loop"
    /\ rel <= Len(unreleased)
    /\ \E jira_ok \in BOOLEAN :
         \E r \in Snapshots[credentials, jira_ok] :
               IF ~r.ok THEN Propagate(r.err)
               ELSE /\ jira_data' = r.val
                    /\ simulations' =
                           with_bottleneck(simulations,
                                           r.val.bottleneck_probability[1],
                                           r.val.bottleneck_probability[2])
                    /\ total_stories' = r.val.story_total
                    /\ stories_without_estimates' = r.val.stories_without_estimates
                    /\ story_points_for_estimated_stories' =
                           r.val.story_points_estimated_total
                    /\ pc' = "mc_call"
                    /\ UNCHANGED <<error, caller, burn_rate, num_simulations,
                                   mcVars, trialVars, draws, envVars,
                                   unreleased, rel, start_date, current,
                                   forecasted_end_date, printed, gddVars,
                                   date_calls>>

forecast_start_today == today

\* the date the forecast of this version starts from (lines 501-505)
forecast_start == IF current THEN today ELSE start_date.ord

\* lines 501-505
MainDeliveryDate ==
    /\ pc = "main_date"
    /\ gdd_start' = forecast_start
    /\ gdd_weeks' = agg_data.delivery_weeks
    /\ forecasted_end_date' =
           get_delivery_date(forecast_start, agg_data.delivery_weeks)
    /\ current' = FALSE
    /\ pc' = "main_print"
    /\ UNCHANGED <<error, caller, paramVars, mcVars, trialVars, draws,
                   envVars, unreleased, rel, start_date, jira_data, printed,
                   date_calls>>

\* the text an f-string gives start_date: a text as it is, a date as str()
start_text(sd) == IF sd.kind = "date" THEN DateStr(sd.ord) ELSE sd.text

\* line 506: print_results
MainPrint ==
    /\ pc = "main_print"
    /\ printed' = Append(printed,
                         [name |-> unreleased[rel].Name,
                          start |-> start_text(start_date),
                          finish |-> forecasted_end_date])
    /\ pc' = "main_next"
    /\ UNCHANGED <<error, caller, paramVars, mcVars, trialVars, draws, envVars,
                   unreleased, rel, start_date, current, jira_data,
                   forecasted_end_date, gddVars, date_calls>>

next_start_same_day(end_text) == DateStart(ParseDate(end_text))

\* line 507: the next version starts the day after this one ends
next_start(end_text) == DateStart(ParseDate(end_text) + 1)

MainAdvance ==
    /\ pc = "main_next"
    /\ start_date' = next_start(forecasted_end_date)
    /\ rel' = rel + 1
    /\ pc' = "main_loop"
    /\ UNCHANGED <<error, caller, paramVars, mcVars, trialVars, draws, envVars,
                   unreleased, current, jira_data, forecasted_end_date,
                   printed, gddVars, date_calls>>

\* the loop of line 477 is exhausted
MainDone ==
    /\ pc = "main_loop"
    /\ rel > Len(unreleased)
    /\ pc' = "main_done"
    /\ UNCHANGED <<error, caller, paramVars, mcVars, trialVars, draws, envVars,
                   mainVars, gddVars, date_calls>>

Todays == {ParseDate(<<2024, 2, 29>>), ParseDate(<<2024, 3, 2>>),
           ParseDate(<<2024, 12, 27>>)}

Init ==
    /\ pc = "main_start"
    /\ error = "none"
    /\ caller = "main"
    /\ today \in Todays
    /\ credentials \in BOOLEAN
    /\ burn_rate = R(BurnRate)
    /\ num_simulations = SimulationCount
    /\ simulations = MainRegistry
    /\ total_stories = 0
    /\ stories_without_estimates = 0
    /\ story_points_for_estimated_stories = Zero
    /\ McIdle /\ TrialIdle /\ draws = 0
    /\ MainIdle /\ GddIdle

Next ==
    \/ MainStart
    \/ MainFetch
    \/ MCNext
    \/ MainDeliveryDate
    \/ MainPrint
    \/ MainAdvance
    \/ MainDone

Spec == Init /\ [][Next]_vars


(***************************************************************************)
(* get_delivery_date called on its own, several times on one start date:   *)
(* whole weeks, and tenths of weeks from a few below zero upward.           *)
(***************************************************************************)
StartDates ==
    {ParseDate(<<2024, 2, 26>>) + i : i \in 0..MaxStartShift}
    \cup {ParseDate(<<2024, 12, 28>>), ParseDate(<<2024, 12, 31>>)}

WeekValues ==
    {R(w) : w \in 0..MaxWeeks}
    \cup {Frac(k, 10) : k \in (-MinTenths)..(10 * MaxWeeks)}

InitDate ==
    /\ pc = "gdd_call"
    /\ error = "none"
    /\ caller = "direct"
    /\ gdd_start \in StartDates
    /\ gdd_weeks = NoneNum
    /\ date_calls = <<>>
    /\ total_stories = 0
    /\ stories_without_estimates = 0
    /\ story_points_for_estimated_stories = Zero
    /\ ParamsIdle /\ McIdle /\ TrialIdle /\ draws = 0
    /\ EnvIdle /\ MainIdle

DateCall ==
    /\ pc = "gdd_call"
    /\ Len(date_calls) < MaxDateCalls
    /\ \E w \in WeekValues :
           /\ gdd_weeks' = w
           /\ date_calls' = Append(date_calls,
                                   [weeks |-> w,
                                    out |-> get_delivery_date(gdd_start, w)])
    /\ UNCHANGED <<pc, error, caller, paramVars, mcVars, trialVars, draws,
                   envVars, mainVars, gdd_start>>

NextDate == DateCall

SpecDate == InitDate /\ [][NextDate]_vars


(***************************************************************************)
(* The extrapolator's claims, under SpecExtrapolate.                       *)
(***************************************************************************)
items_with_estimates == total_stories - stories_without_estimates
ExtrapolatorCalled == pc \in {"ex_returned", "raised"}

\* C1: with items_with_estimates > 0 the extrapolator returns
\* points + (points / items_with_estimates) * (total - items_with_estimates);
\* (100, 50, 250) gives 500.
C1_AverageOverEstimated ==
    (ExtrapolatorCalled /\ items_with_estimates > 0) =>
        /\ pc = "ex_returned"
        /\ total_initial_points =
               RAdd(story_points_for_estimated_stories,
                    RMul(RDiv(story_points_for_estimated_stories,
                              R(items_with_estimates)),
                         R(stories_without_estimates)))

\* C2 as stated: with 0 < items_with_estimates <= total and points >= 0 the
\* result is >= points, and equals points iff no story is unestimated.
C2_EqualIffAllEstimated ==
    (ExtrapolatorCalled /\ items_with_estimates > 0) =>
        /\ pc = "ex_returned"
        /\ RLe(story_points_for_estimated_stories, total_initial_points)
        /\ (total_initial_points = story_points_for_estimated_stories
                <=> stories_without_estimates = 0)

\* C2 as amended: the result is >= points, and equals points iff no story
\* is unestimated or the estimated stories total zero points.
C2_EqualIffNothingToAdd ==
    (ExtrapolatorCalled /\ items_with_estimates > 0) =>
        /\ pc = "ex_returned"
        /\ RLe(story_points_for_estimated_stories, total_initial_points)
        /\ (total_initial_points = story_points_for_estimated_stories
                <=> (stories_without_estimates = 0
                     \/ story_points_for_estimated_stories = Zero))

\* a workload with estimated and unestimated stories and points to spread
\* has been extrapolated above its point total
C2_Witness ==
    /\ pc = "ex_returned"
    /\ items_with_estimates > 0
    /\ stories_without_estimates > 0
    /\ RLt(Zero, story_points_for_estimated_stories)
    /\ RLt(story_points_for_estimated_stories, total_initial_points)

\* C3: with no estimated story (stories_without_estimates = total_stories)
\* the extrapolation ends in an error and returns no point total.
C3_NoEstimatesRaises ==
    (ExtrapolatorCalled /\ items_with_estimates = 0) => pc = "raised"


(***************************************************************************)
(* The trial engine's claims, under SpecTrial.                             *)
(***************************************************************************)
TrialRunning == pc \in {"rs_factor", "rs_story"}

\* C7: a run with burn_rate <= 0 or total_items <= 0 fails before any
\* simulation work: no trial is started, no Bernoulli draw is made, and no
\* report is returned.
C7_FailsBeforeAnyWork ==
    (RLe(burn_rate, Zero) \/ total_stories <= 0) =>
        /\ draws = 0
        /\ ~TrialRunning
        /\ all_sim_results = <<>>
        /\ pc # "mc_returned"

AllCertain == \A i \in 1..Len(simulations) :
                  simulations[i].probability \in {Zero, R(1)}
AllZero == \A i \in 1..Len(simulations) : simulations[i].probability = Zero

C4_NextStartsDayAfter ==
    \A i \in 1..(Len(printed) - 1) :
        printed[i + 1].start = DateStr(ParseDate(printed[i].finish) + 1)

\* two releases are reported, the first ending on the last day of February
C4_Witness ==
    /\ Len(printed) = 2
    /\ printed[1].finish = <<2024, 2, 29>>
    /\ printed[2].start = <<2024, 3, 1>>

JustPrinted == pc = "main_next"

\* C5 as stated: every release, the first included, reports as its start the
\* date its end was computed from, and for the first release that is today.
C5_ReportedStartIsForecastStart ==
    JustPrinted =>
        /\ printed[rel].finish = get_delivery_date(gdd_start, gdd_weeks)
        /\ printed[rel].start = DateStr(gdd_start)
        /\ rel = 1 => gdd_start = today

\* C5 as amended: every release after the first reports as its start the
\* chain's date its end was computed from; the first release's end is
\* computed from today, and its reported start is the Start Date the
\* tracker holds for it.
C5_FirstFromTodayRestFromChain ==
    JustPrinted =>
        /\ printed[rel].finish = get_delivery_date(gdd_start, gdd_weeks)
        /\ gdd_weeks = agg_data.delivery_weeks
        /\ IF rel = 1
           THEN /\ gdd_start = today
                /\ printed[rel].start = unreleased[1].StartDate
           ELSE /\ gdd_start = start_date.ord
                /\ printed[rel].start = DateStr(gdd_start)

\* the second release has been reported, the first having been reported
\* with a start other than the day of the run
C5_Witness ==
    /\ JustPrinted
    /\ rel = 2
    /\ printed[1].start # DateStr(today)
    /\ printed[2].start # printed[2].finish

\* C6 as stated: in a run in which some release's step fails no release's
\* report is emitted.
C6_NoReportWhenAStepFails == pc = "raised" => printed = <<>>

\* C6 as amended: a failing step ends the run where it stands; the failing
\* release is not skipped and no later release is forecast; the reports
\* emitted are those of the releases before the failing one, and no other.
C6_AbortKeepsEarlierReports ==
    /\ pc = "raised" => ~ENABLED Next
    /\ rel = 0 => printed = <<>>
    /\ rel > 0 =>
           /\ Len(printed) = IF JustPrinted THEN rel ELSE rel - 1
           /\ \A i \in 1..Len(printed) : printed[i].name = unreleased[i].Name

\* the second release's step has failed after the first was reported
C6_Witness ==
    /\ pc = "raised"
    /\ rel = 2
    /\ Len(printed) = 1
    /\ Len(unreleased) = 2


(***************************************************************************)
(* The calendar converter's claims, under SpecDate.                        *)
(***************************************************************************)
\* the date k business days after a date, counted one calendar day at a
\* time, a non-business start being rolled forward first
RECURSIVE advance_business_days(_, _)
advance_business_days(n, k) ==
    IF ~is_busday(n) THEN advance_business_days(n + 1, k)
    ELSE IF k = 0 THEN n
    ELSE advance_business_days(n + 1, k - 1)

\* C9: every call with delivery_weeks >= 0, fractional values included,
\* returns the start date advanced by floor(delivery_weeks * 5) business
\* days, a non-business start rolled forward first; with delivery_weeks = 0
\* that is the start date itself or, from a weekend, the next Monday.
C9_FloorOfBusinessDays ==
    \A i \in 1..Len(date_calls) :
        RLe(Zero, date_calls[i].weeks) =>
            /\ date_calls[i].out =
                   DateStr(advance_business_days(
                               gdd_start,
                               RFloor(RMul(date_calls[i].weeks, R(5)))))
            /\ date_calls[i].weeks = Zero =>
                   ParseDate(date_calls[i].out) =
                       IF is_busday(gdd_start) THEN gdd_start
                       ELSE gdd_start + (7 - weekday(gdd_start))

\* a fractional horizon from a Saturday: 0.7 weeks are 3 business days
\* after the Monday the start rolls to, not 4
C9_Witness ==
    /\ weekday(gdd_start) = 5
    /\ \E i \in 1..Len(date_calls) :
           /\ date_calls[i].weeks = Frac(7, 10)
           /\ ParseDate(date_calls[i].out) = gdd_start + 5

\* C10: for a fixed start date and 0 <= w1 <= w2, the date returned for w1
\* is not later than the date returned for w2.
C10_MonotonicInWeeks ==
    \A i, j \in 1..Len(date_calls) :
        /\ RLe(Zero, date_calls[i].weeks)
        /\ RLe(date_calls[i].weeks, date_calls[j].weeks)
        => ParseDate(date_calls[i].out) <= ParseDate(date_calls[j].out)

\* two calls, the longer horizon across a weekend and strictly later
C10_Witness ==
    /\ Len(date_calls) = 2
    /\ RLt(Zero, date_calls[1].weeks)
    /\ RLt(date_calls[1].weeks, date_calls[2].weeks)
    /\ ParseDate(date_calls[2].out) - ParseDate(date_calls[1].out) > 2

(***************************************************************************)
(* The result of a trial, under SpecTrial.                                 *)
(***************************************************************************)
\* the inputs the guarantee is given for
TrialPreconditions ==
    /\ RLt(Zero, burn_rate)
    /\ total_stories > 0
    /\ \A i \in 1..Len(simulations) :
           /\ RLe(Zero, simulations[i].probability)
           /\ RLe(simulations[i].probability, R(1))
           /\ RLe(Zero, simulations[i].impact)
    /\ IsNum(total_initial_points)
    /\ RLe(Zero, total_initial_points)

\* what the factors of the registry contribute in one trial's result
contributions(result) ==
    [i \in 1..Len(simulations) |-> DictGet(result, simulations[i].name)]

TrialsExecuting == pc \in {"mc_trials", "rs_factor", "rs_story"}

\* C12: while the trials of a run execute neither the registry nor
\* total_initial_points is modified; across the chain the registry keeps
\* its factors, the only values that ever change are the probability and
\* the impact of 'bottlenecks', and they change only in the step that
\* fetches a release, before that release's trials begin.
C12_RegistryFrozenDuringTrials ==
    [][/\ TrialsExecuting =>
              /\ simulations' = simulations
              /\ total_initial_points' = total_initial_points
       /\ Len(simulations') = Len(simulations)
       /\ \A i \in 1..Len(simulations) :
              /\ simulations'[i].name = simulations[i].name
              /\ simulations'[i] # simulations[i] =>
                     /\ simulations[i].name = "bottlenecks"
                     /\ pc = "main_loop"
                     /\ pc' = "mc_call"]_vars

\* the second trial of the second release is drawing, the first release is
\* reported, and the bottleneck factor no longer holds the impact it was
\* built with
C12_Witness ==
    /\ rel = 2
    /\ Len(printed) = 1
    /\ pc = "rs_story"
    /\ Len(all_sim_results) = 1
    /\ \E i \in 1..Len(simulations) :
           /\ simulations[i].name = "bottlenecks"
           /\ simulations[i].impact # MainRegistry[i].impact

====
